---- MODULE Spec2Model ----
(***************************************************************************)
(* Model of the Saksoft HR Agent relay (src/main.py): the POST /chat route *)
(* with its bearer-token dependency, the outbound call to the agent API    *)
(* and the translation of the agent's reply or failure into the response.  *)
(*                                                                         *)
(* Optional values (os.getenv results, not-yet-set fields) are sequences   *)
(* of length at most one: None is <<>> and a present value x is <<x>>.     *)
(* Message texts are sequences of string pieces, so that str(e) of a       *)
(* formatted exception is a computed value and not an opaque token.        *)
(***************************************************************************)
EXTENDS Integers, Sequences, FiniteSets, TLC

VARIABLES env, build, pc, auth, body, creds, token, chatRequest,
          outbound, reply, response

vars == <<env, build, pc, auth, body, creds, token, chatRequest,
          outbound, reply, response>>

(* Number of request slots handled by the server. *)
NReq == 2

Reqs == 1..NReq

None == <<>>

Some(x) == <<x>>

EmptyObj == [k \in {} |-> ""]

(***************************************************************************)
(* JSON values, as far as the relay distinguishes them.                    *)
(***************************************************************************)
JMissing == [t |-> "missing", s |-> "", n |-> 0]

JNull == [t |-> "null", s |-> "", n |-> 0]

JStr(x) == [t |-> "str", s |-> x, n |-> 0]

JNum(x) == [t |-> "num", s |-> "", n |-> x]

JObject(f) == [t |-> "object", fields |-> f, elems |-> <<>>]

JArray(e) == [t |-> "array", fields |-> EmptyObj, elems |-> e]

JString(chars) == [t |-> "string", fields |-> EmptyObj, elems |-> chars]

JNumber == [t |-> "number", fields |-> EmptyObj, elems |-> <<>>]

JInvalid == [t |-> "invalid", fields |-> EmptyObj, elems |-> <<>>]

ResponseKeyChars == <<"r", "e", "s", "p", "o", "n", "s", "e">>

(***************************************************************************)
(* Text conversions.                                                       *)
(***************************************************************************)
Lower(s) ==
    CASE s = "Bearer" -> "bearer"
      [] s = "Basic" -> "basic"
      [] OTHER -> s

NumToStr(n) ==
    CASE n = 7 -> "7"
      [] n = 200 -> "200"
      [] n = 201 -> "201"
      [] n = 302 -> "302"
      [] n = 404 -> "404"
      [] n = 500 -> "500"
      [] n = 503 -> "503"
      [] OTHER -> "?"

ReasonPhrase(s) ==
    CASE s = 302 -> "Found"
      [] s = 404 -> "Not Found"
      [] s = 503 -> "Service Unavailable"
      [] OTHER -> ""

ErrorType(s) ==
    CASE s \div 100 = 1 -> "Informational response"
      [] s \div 100 = 3 -> "Redirect response"
      [] s \div 100 = 4 -> "Client error"
      [] s \div 100 = 5 -> "Server error"
      [] OTHER -> "Invalid status code"

(***************************************************************************)
(* Configuration: os.getenv.                                               *)
(***************************************************************************)
EnvNames == {"BEARER_TOKEN", "API_KEY", "AGENT_API_URL", "USER_ID", "AGENT_ID"}

getenv(name) == env[name]

getenv_default(name, default) ==
    IF env[name] = None THEN default ELSE env[name][1]

(***************************************************************************)
(* Responses and exceptions.                                               *)
(***************************************************************************)
NoResponse == [status |-> 0, detail |-> <<>>, json |-> EmptyObj]

ErrorResponse(status, detail) ==
    [status |-> status, detail |-> detail, json |-> EmptyObj]

OkResponse(obj) == [status |-> 200, detail |-> <<>>, json |-> obj]

HTTPException(status, detail) ==
    [cls |-> "HTTPException", status |-> status, msg |-> detail]

HTTPStatusError(status, url) ==
    [cls |-> "HTTPStatusError", status |-> status,
     msg |-> <<ErrorType(status), NumToStr(status), ReasonPhrase(status), url>>]

OtherError(cls, text) == [cls |-> cls, status |-> 0, msg |-> <<text>>]

NoError == [cls |-> "", status |-> 0, msg |-> <<>>]

(* str(e): an HTTPException formats as "<status>: <detail>" where the      *)
(* framework defines __str__, and as the empty string where it does not    *)
(* (it is constructed with keyword arguments only).                        *)
StrExc(e) ==
    IF e.cls = "HTTPException"
    THEN IF build.excStr THEN <<NumToStr(e.status), ": ">> \o e.msg ELSE <<>>
    ELSE e.msg

(***************************************************************************)
(* security = HTTPBearer(): extracts the credentials or rejects.           *)
(***************************************************************************)
BearerRejected(h) ==
    \/ h.scheme = ""
    \/ h.credentials = ""
    \/ Lower(h.scheme) # "bearer"

BearerError(h) ==
    IF h.scheme = "" \/ h.credentials = "" \/ build.bearerStatus = 401
    THEN ErrorResponse(build.bearerStatus, <<"Not authenticated">>)
    ELSE ErrorResponse(build.bearerStatus, <<"Invalid authentication credentials">>)

(***************************************************************************)
(* verify_token: credentials.credentials != expected_token.               *)
(***************************************************************************)
TokenAcceptsUnset(credentials, expected_token) ==
    expected_token = None \/ Some(credentials) = expected_token

TokenMatches(credentials, expected_token) ==
    Some(credentials) = expected_token

InvalidTokenDetail == <<"Invalid or missing Bearer token">>

(***************************************************************************)
(* ChatRequest(BaseModel): two fields of type str.                         *)
(***************************************************************************)
StrFieldOkNullable(v) ==
    \/ v.t = "str"
    \/ v.t = "null"
    \/ (v.t = "num" /\ ~build.strictStr)

StrFieldOk(v) ==
    \/ v.t = "str"
    \/ (v.t = "num" /\ ~build.strictStr)

StrFieldValue(v) == IF v.t = "num" THEN NumToStr(v.n) ELSE v.s

ChatRequestValid(b) == StrFieldOk(b.session_id) /\ StrFieldOk(b.message)

ChatRequest(b) ==
    [session_id |-> StrFieldValue(b.session_id),
     message |-> StrFieldValue(b.message)]

ValidationErrors(b) ==
    (IF StrFieldOk(b.session_id) THEN <<>> ELSE <<"session_id">>)
    \o (IF StrFieldOk(b.message) THEN <<>> ELSE <<"message">>)

NoChatRequest == [session_id |-> "", message |-> ""]



(***************************************************************************)
(* chat_with_agent: headers and payload of the outbound call.              *)
(***************************************************************************)
Headers == [content_type |-> "application/json", x_api_key |-> getenv("API_KEY")]

BuildPayload(req) ==
    [user_id |-> getenv_default("USER_ID", "default_user"),
     agent_id |-> getenv_default("AGENT_ID", ""),
     session_id |-> req.session_id,
     message |-> req.message,
     system_prompt_variables |-> EmptyObj,
     filter_variables |-> EmptyObj,
     features |-> <<>>]

PayloadFromCaller(r) ==
    [BuildPayload(chatRequest[r]) EXCEPT !.user_id = chatRequest[r].session_id]

PayloadShared(r) ==
    BuildPayload(chatRequest[IF r = NReq THEN 1 ELSE r + 1])

Payload(r) == BuildPayload(chatRequest[r])

(* client.post(url, json=payload, headers=headers): building the request  *)
(* raises TypeError for a url or a header value that is None.             *)
PostError ==
    IF getenv("AGENT_API_URL") = None
    THEN OtherError("TypeError", "Invalid type for url")
    ELSE IF getenv("API_KEY") = None
         THEN OtherError("TypeError", "Header value must be str or bytes")
         ELSE NoError

PostWithRetry(calls, call) == Append(Append(calls, call), call)

Post(calls, call) == Append(calls, call)

(***************************************************************************)
(* chat_with_agent: reading the reply (lines 81-88).                       *)
(***************************************************************************)
IsSuccess(status) == status \div 100 = 2

Contains(seq, pat) ==
    \E i \in 1..(Len(seq) - Len(pat) + 1) :
        SubSeq(seq, i, i + Len(pat) - 1) = pat

(* "response" in result *)
HasResponse(result) ==
    CASE result.t = "object" -> "response" \in DOMAIN result.fields
      [] result.t = "array" ->
            \E i \in 1..Len(result.elems) : result.elems[i] = "response"
      [] result.t = "string" -> Contains(result.elems, ResponseKeyChars)
      [] OTHER -> FALSE

SuccessResultWhole(result) == result.fields

SuccessResult(result) == [response |-> result.fields["response"]]

(* The exception raised inside the try block for a reply, NoError if none. *)
ReplyError(rep, url) ==
    IF ~rep.arrived THEN rep.error
    ELSE IF ~IsSuccess(rep.status) THEN HTTPStatusError(rep.status, url)
    ELSE IF rep.body.t = "invalid"
         THEN OtherError("JSONDecodeError", "Expecting value: line 1 column 1 (char 0)")
    ELSE IF rep.body.t = "number"
         THEN OtherError("TypeError", "argument of type 'int' is not iterable")
    ELSE IF ~HasResponse(rep.body)
         THEN HTTPException(500, <<"Invalid response format from HR agent API">>)
    ELSE IF rep.body.t = "array"
         THEN OtherError("TypeError", "list indices must be integers or slices, not str")
    ELSE IF rep.body.t = "string"
         THEN OtherError("TypeError", "string indices must be integers")
    ELSE NoError

(* The two except clauses (lines 90-96). *)
HandleExceptionAll500(e) == ErrorResponse(500, StrExc(e))

HandleExceptionGeneric(e) ==
    IF e.cls = "HTTPStatusError"
    THEN ErrorResponse(e.status, StrExc(e))
    ELSE ErrorResponse(500, <<"Internal Server Error">>)

HandleException(e) ==
    IF e.cls = "HTTPStatusError"
    THEN ErrorResponse(e.status, StrExc(e))
    ELSE ErrorResponse(500, StrExc(e))

Result(rep, url) ==
    IF ReplyError(rep, url) = NoError
    THEN OkResponse(SuccessResult(rep.body))
    ELSE HandleException(ReplyError(rep, url))

(***************************************************************************)
(* Inputs.                                                                 *)
(***************************************************************************)
Header(scheme, credentials) == [scheme |-> scheme, credentials |-> credentials]

NoHeader == Header("", "")

AuthHeaders ==
    {NoHeader, Header("Basic", "tok"), Header("Bearer", ""),
     Header("Bearer", "tok"), Header("bearer", "tok"), Header("Bearer", "bad")}

FieldValues == {JMissing, JNull, JNum(7), JStr(""), JStr("s1")}

Body(json, sid, msg) == [json |-> json, session_id |-> sid, message |-> msg]

BadJsonBody == Body(FALSE, JMissing, JMissing)

Bodies ==
    {BadJsonBody} \cup {Body(TRUE, s, m) : s \in FieldValues, m \in FieldValues}

UpstreamBodies ==
    {JObject(EmptyObj),
     JObject([foo |-> "bar"]),
     JObject([response |-> "Hello!"]),
     JObject([response |-> "Hello!", foo |-> "bar"]),
     JArray(<<>>),
     JArray(<<"response">>),
     JString(ResponseKeyChars),
     JNumber,
     JInvalid}

HttpReply(status, b) ==
    [arrived |-> TRUE, status |-> status, body |-> b, error |-> NoError]

FailedReply(e) ==
    [arrived |-> FALSE, status |-> 0, body |-> JInvalid, error |-> e]

NoReply == FailedReply(NoError)

Replies ==
    {HttpReply(s, b) : s \in {200, 201}, b \in UpstreamBodies}
    \cup {HttpReply(s, JObject([error |-> "unavailable"])) : s \in {302, 404, 503}}
    \cup {HttpReply(503, JObject([response |-> "Hello!"]))}
    \cup {FailedReply(OtherError("ConnectError", "All connection attempts failed")),
          FailedReply(OtherError("ReadTimeout", ""))}

(* Reduced inputs for the interleaving specification. *)
ConcHeaders == {Header("Bearer", "tok"), Header("Bearer", "bad")}

ConcBodies ==
    {Body(TRUE, JStr("s1"), JStr("m1")), Body(TRUE, JStr("s2"), JStr("m2"))}

ConcReplies ==
    {HttpReply(200, JObject([response |-> "Hello!"])),
     HttpReply(200, JObject([response |-> "Bye!"])),
     HttpReply(503, JObject([error |-> "unavailable"]))}

Option(S) == {None} \cup {Some(x) : x \in S}

Envs ==
    [EnvNames -> {None, Some("tok"), Some("key"), Some("url"), Some("u1"), Some("a1")}]

EnvOk(e) ==
    /\ e["BEARER_TOKEN"] \in Option({"tok"})
    /\ e["API_KEY"] \in Option({"key"})
    /\ e["AGENT_API_URL"] \in Option({"url"})
    /\ e["USER_ID"] \in Option({"u1"})
    /\ e["AGENT_ID"] \in Option({"a1"})

Builds == [bearerStatus : {403, 401}, strictStr : BOOLEAN, excStr : BOOLEAN]

(***************************************************************************)
(* State machine.                                                          *)
(***************************************************************************)
TypeOK ==
    /\ pc \in [Reqs -> {"idle", "received", "parsed", "authorized", "validated",
                        "awaiting", "replied", "done"}]
    /\ \A r \in Reqs : Len(outbound[r]) \in 0..2

Init ==
    /\ env \in {e \in Envs : EnvOk(e)}
    /\ build \in Builds
    /\ pc = [r \in Reqs |-> "idle"]
    /\ auth = [r \in Reqs |-> NoHeader]
    /\ body = [r \in Reqs |-> BadJsonBody]
    /\ creds = [r \in Reqs |-> None]
    /\ token = [r \in Reqs |-> None]
    /\ chatRequest = [r \in Reqs |-> NoChatRequest]
    /\ outbound = [r \in Reqs |-> <<>>]
    /\ reply = [r \in Reqs |-> NoReply]
    /\ response = [r \in Reqs |-> NoResponse]

(* The interleaving specification starts from a complete configuration. *)
InitConc ==
    /\ Init
    /\ env["BEARER_TOKEN"] # None
    /\ env["API_KEY"] # None
    /\ env["AGENT_API_URL"] # None
    /\ env["AGENT_ID"] = None
    /\ build.bearerStatus = 403
    /\ build.strictStr

Respond(r, resp) ==
    /\ response' = [response EXCEPT ![r] = resp]
    /\ pc' = [pc EXCEPT ![r] = "done"]

(* A POST /chat request arrives. *)
ReceiveRequest(r, hs, bs) ==
    /\ pc[r] = "idle"
    /\ \E h \in hs, b \in bs :
        /\ auth' = [auth EXCEPT ![r] = h]
        /\ body' = [body EXCEPT ![r] = b]
    /\ pc' = [pc EXCEPT ![r] = "received"]
    /\ UNCHANGED <<env, build, creds, token, chatRequest, outbound, reply, response>>

(* The framework reads the body as JSON before resolving dependencies. *)
ReadBody(r) ==
    /\ pc[r] = "received"
    /\ IF body[r].json
       THEN /\ pc' = [pc EXCEPT ![r] = "parsed"]
            /\ UNCHANGED response
       ELSE Respond(r, ErrorResponse(422, <<"JSON decode error">>))
    /\ UNCHANGED <<env, build, auth, body, creds, token, chatRequest, outbound, reply>>

(* Depends(verify_token) with Security(security). *)
verify_token(r) ==
    /\ pc[r] = "parsed"
    /\ IF BearerRejected(auth[r])
       THEN /\ Respond(r, BearerError(auth[r]))
            /\ UNCHANGED <<creds, token>>
       ELSE /\ creds' = [creds EXCEPT ![r] = Some(auth[r].credentials)]
            /\ IF TokenMatches(auth[r].credentials, getenv("BEARER_TOKEN"))
               THEN /\ token' = [token EXCEPT ![r] = Some(auth[r].credentials)]
                    /\ pc' = [pc EXCEPT ![r] = "authorized"]
                    /\ UNCHANGED response
               ELSE /\ Respond(r, ErrorResponse(401, InvalidTokenDetail))
                    /\ UNCHANGED token
    /\ UNCHANGED <<env, build, auth, body, chatRequest, outbound, reply>>

(* The body is validated against ChatRequest. *)
ValidateBody(r) ==
    /\ pc[r] = "authorized"
    /\ IF ChatRequestValid(body[r])
       THEN /\ chatRequest' = [chatRequest EXCEPT ![r] = ChatRequest(body[r])]
            /\ pc' = [pc EXCEPT ![r] = "validated"]
            /\ UNCHANGED response
       ELSE /\ Respond(r, ErrorResponse(422, ValidationErrors(body[r])))
            /\ UNCHANGED chatRequest
    /\ UNCHANGED <<env, build, auth, body, creds, token, outbound, reply>>

(* chat_with_agent up to the await of client.post (lines 56-79). *)
chat_with_agent_post(r) ==
    /\ pc[r] = "validated"
    /\ IF PostError = NoError
       THEN /\ outbound' = [outbound EXCEPT ![r] =
                    Post(@, [url |-> getenv("AGENT_API_URL")[1],
                             headers |-> Headers,
                             json |-> Payload(r)])]
            /\ pc' = [pc EXCEPT ![r] = "awaiting"]
            /\ UNCHANGED response
       ELSE /\ Respond(r, HandleException(PostError))
            /\ UNCHANGED outbound
    /\ UNCHANGED <<env, build, auth, body, creds, token, chatRequest, reply>>

(* The agent API answers the call, or the transport fails. *)
UpstreamReply(r, rs) ==
    /\ pc[r] = "awaiting"
    /\ \E rep \in rs : reply' = [reply EXCEPT ![r] = rep]
    /\ pc' = [pc EXCEPT ![r] = "replied"]
    /\ UNCHANGED <<env, build, auth, body, creds, token, chatRequest, outbound, response>>

(* chat_with_agent after the await (lines 81-96). *)
chat_with_agent_result(r) ==
    /\ pc[r] = "replied"
    /\ Respond(r, Result(reply[r], getenv("AGENT_API_URL")[1]))
    /\ UNCHANGED <<env, build, auth, body, creds, token, chatRequest, outbound, reply>>

(* The response is sent; nothing of the request is kept. *)
SendResponse(r) ==
    /\ pc[r] = "done"
    /\ pc' = [pc EXCEPT ![r] = "idle"]
    /\ auth' = [auth EXCEPT ![r] = NoHeader]
    /\ body' = [body EXCEPT ![r] = BadJsonBody]
    /\ creds' = [creds EXCEPT ![r] = None]
    /\ token' = [token EXCEPT ![r] = None]
    /\ chatRequest' = [chatRequest EXCEPT ![r] = NoChatRequest]
    /\ outbound' = [outbound EXCEPT ![r] = <<>>]
    /\ reply' = [reply EXCEPT ![r] = NoReply]
    /\ response' = [response EXCEPT ![r] = NoResponse]
    /\ UNCHANGED <<env, build>>

Quiet(r) == \A q \in Reqs \ {r} : pc[q] = "idle"

(* One request at a time, every input. *)
Next ==
    \E r \in Reqs :
        \/ (Quiet(r) /\ ReceiveRequest(r, AuthHeaders, Bodies))
        \/ ReadBody(r)
        \/ verify_token(r)
        \/ ValidateBody(r)
        \/ chat_with_agent_post(r)
        \/ UpstreamReply(r, Replies)
        \/ chat_with_agent_result(r)
        \/ SendResponse(r)

Spec == Init /\ [][Next]_vars

(* Requests interleaved at every await, reduced inputs. *)
NextConc ==
    \E r \in Reqs :
        \/ ReceiveRequest(r, ConcHeaders, ConcBodies)
        \/ ReadBody(r)
        \/ verify_token(r)
        \/ ValidateBody(r)
        \/ chat_with_agent_post(r)
        \/ UpstreamReply(r, ConcReplies)
        \/ chat_with_agent_result(r)
        \/ SendResponse(r)

SpecConc == InitConc /\ [][NextConc]_vars

(***************************************************************************)
(* Properties.                                                             *)
(***************************************************************************)
Done(r) == pc[r] = "done"

InSeq(x, seq) == \E i \in 1..Len(seq) : seq[i] = x

MissingKeyDetail == <<"Invalid response format from HR agent API">>

ConfigComplete == getenv("AGENT_API_URL") # None /\ getenv("API_KEY") # None

(* The request reached the body of chat_with_agent. *)
Entered(r) == token[r] # None /\ ChatRequestValid(body[r])

(* The exception raised inside the try block of request r, NoError if none. *)
Raised(r) ==
    IF outbound[r] = <<>> THEN PostError
    ELSE ReplyError(reply[r], getenv("AGENT_API_URL")[1])

(* C1: a finished request with a well-formed JSON body whose Authorization *)
(* header is absent, malformed or carries a token other than BEARER_TOKEN  *)
(* was answered 401 "Invalid or missing Bearer token" and never forwarded. *)
C1_Unauthorized401 ==
    \A r \in Reqs :
        (/\ Done(r)
         /\ body[r].json
         /\ (\/ BearerRejected(auth[r])
             \/ Some(auth[r].credentials) # getenv("BEARER_TOKEN")))
        => /\ response[r] = ErrorResponse(401, InvalidTokenDetail)
           /\ outbound[r] = <<>>

(* C2: an authenticated request whose upstream reply is 2xx with a JSON    *)
(* object lacking the `response` key is answered 500 with the detail       *)
(* "Invalid response format from HR agent API", unchanged.                 *)
C2_MissingKeyDetail ==
    \A r \in Reqs :
        (/\ Done(r)
         /\ token[r] # None
         /\ reply[r].arrived
         /\ IsSuccess(reply[r].status)
         /\ reply[r].body.t = "object"
         /\ "response" \notin DOMAIN reply[r].body.fields)
        => response[r] = ErrorResponse(500, MissingKeyDetail)

(* C3: an authenticated request whose upstream reply has a non-2xx status  *)
(* s is answered with status s and a detail naming the upstream error and  *)
(* its status; the reply body is not relayed.                              *)
C3_UpstreamStatusRelayed ==
    \A r \in Reqs :
        (Done(r) /\ reply[r].arrived /\ ~IsSuccess(reply[r].status))
        => /\ response[r].status = reply[r].status
           /\ response[r].status # 200
           /\ InSeq(NumToStr(reply[r].status), response[r].detail)
           /\ InSeq(ErrorType(reply[r].status), response[r].detail)
           /\ response[r].json = EmptyObj

C3_Witness ==
    \E r \in Reqs :
        /\ Done(r)
        /\ token[r] # None
        /\ reply[r] = HttpReply(503, JObject([response |-> "Hello!"]))
        /\ response[r].status = 503

(* C4: an authenticated request whose upstream reply is 2xx with a JSON    *)
(* object holding `response` = v is answered 200 with a body whose only    *)
(* field is `response`, equal to v.                                        *)
C4_OnlyResponseRelayed ==
    \A r \in Reqs :
        (/\ Done(r)
         /\ reply[r].arrived
         /\ IsSuccess(reply[r].status)
         /\ reply[r].body.t = "object"
         /\ "response" \in DOMAIN reply[r].body.fields)
        => /\ response[r].status = 200
           /\ DOMAIN response[r].json = {"response"}
           /\ response[r].json["response"] = reply[r].body.fields["response"]

C4_Witness ==
    \E r \in Reqs :
        /\ Done(r)
        /\ token[r] # None
        /\ reply[r] = HttpReply(201, JObject([response |-> "Hello!", foo |-> "bar"]))
        /\ response[r].json = [response |-> "Hello!"]

(* C5: every outbound payload carries the request's session_id and message *)
(* unchanged, user_id and agent_id from the configuration (defaults        *)
(* "default_user" and ""), and empty system_prompt_variables,              *)
(* filter_variables and features.                                          *)
C5_PassThrough ==
    \A r \in Reqs :
        \A i \in 1..Len(outbound[r]) :
            LET p == outbound[r][i].json IN
            /\ p.session_id = chatRequest[r].session_id
            /\ p.message = chatRequest[r].message
            /\ body[r].session_id.t = "str" => p.session_id = body[r].session_id.s
            /\ body[r].message.t = "str" => p.message = body[r].message.s
            /\ p.user_id = (IF env["USER_ID"] = None THEN "default_user"
                            ELSE env["USER_ID"][1])
            /\ p.agent_id = (IF env["AGENT_ID"] = None THEN "" ELSE env["AGENT_ID"][1])
            /\ p.system_prompt_variables = EmptyObj
            /\ p.filter_variables = EmptyObj
            /\ p.features = <<>>

C5_Witness ==
    \E r \in Reqs :
        /\ Len(outbound[r]) = 1
        /\ env["USER_ID"] = None
        /\ env["AGENT_ID"] # None
        /\ body[r].session_id = JStr("s1")
        /\ body[r].message = JStr("")
        /\ outbound[r][1].json.session_id = "s1"

(* C6 as stated, for the requests that reach chat_with_agent: every        *)
(* finished request that passed token verification (and whose body is a    *)
(* valid ChatRequest) issued exactly one outbound call.                    *)
C6_ExactlyOnePerVerified ==
    \A r \in Reqs :
        (Done(r) /\ token[r] # None /\ ChatRequestValid(body[r]))
        => Len(outbound[r]) = 1

(* C6: no request ever issues more than one outbound call, a request that  *)
(* did not pass token verification issues none, and a finished request     *)
(* that passed token verification and body validation under a              *)
(* configuration with AGENT_API_URL and API_KEY set issued exactly one,    *)
(* whatever the outcome.                                                   *)
C6_AtMostOneNoRetry ==
    \A r \in Reqs :
        /\ Len(outbound[r]) <= 1
        /\ token[r] = None => outbound[r] = <<>>
        /\ (Done(r) /\ Entered(r) /\ ConfigComplete) => Len(outbound[r]) = 1

C6_Witness ==
    \E r \in Reqs :
        /\ Done(r)
        /\ Len(outbound[r]) = 1
        /\ response[r].status # 200
        /\ reply[r].arrived
        /\ reply[r].status = 503

(* C7: when the body of chat_with_agent raises an exception other than an  *)
(* upstream status error, the request is answered 500 with the exception's *)
(* string representation as detail.                                        *)
C7_OtherErrors500 ==
    \A r \in Reqs :
        (/\ Done(r)
         /\ Entered(r)
         /\ Raised(r) # NoError
         /\ Raised(r).cls # "HTTPStatusError")
        => /\ response[r].status = 500
           /\ response[r].json = EmptyObj
           /\ response[r].detail =
                IF Raised(r).cls = "HTTPException"
                THEN IF build.excStr
                     THEN <<"500", ": ">> \o Raised(r).msg
                     ELSE <<>>
                ELSE Raised(r).msg

C7_Witness ==
    \E r \in Reqs :
        /\ Done(r)
        /\ Entered(r)
        /\ reply[r].arrived
        /\ reply[r].body = JInvalid
        /\ response[r] = ErrorResponse(500, <<"Expecting value: line 1 column 1 (char 0)">>)

OwnResponse(h, b, rep) ==
    IF ~b.json THEN ErrorResponse(422, <<"JSON decode error">>)
    ELSE IF h.scheme = "" \/ h.credentials = "" \/ Lower(h.scheme) # "bearer"
         THEN BearerError(h)
    ELSE IF Some(h.credentials) # env["BEARER_TOKEN"]
         THEN ErrorResponse(401, InvalidTokenDetail)
    ELSE IF ~ChatRequestValid(b) THEN ErrorResponse(422, ValidationErrors(b))
    ELSE IF PostError # NoError THEN HandleException(PostError)
    ELSE Result(rep, env["AGENT_API_URL"][1])

(* C9: under any interleaving, every outbound payload of a request carries *)
(* that request's own session_id and message, and its final response is    *)
(* the one its own header, body and upstream reply determine.              *)
C9_Isolation ==
    \A r \in Reqs :
        /\ \A i \in 1..Len(outbound[r]) :
              /\ body[r].session_id.t = "str"
              /\ body[r].message.t = "str"
              /\ outbound[r][i].json.session_id = body[r].session_id.s
              /\ outbound[r][i].json.message = body[r].message.s
        /\ Done(r) => response[r] = OwnResponse(auth[r], body[r], reply[r])
        /\ (Done(r) /\ response[r].status = 200)
           => response[r].json["response"] = reply[r].body.fields["response"]

C9_Witness ==
    \E r, q \in Reqs :
        /\ r # q
        /\ Done(r)
        /\ response[r].status = 200
        /\ pc[q] = "awaiting"
        /\ Len(outbound[q]) = 1
        /\ body[r] # body[q]
        /\ outbound[q][1].json.session_id # outbound[r][1].json.session_id

(* C10: with BEARER_TOKEN unset no request passes verify_token, whatever   *)
(* credential it presents: each is answered 401 and none is forwarded.     *)
C10_FailClosed ==
    env["BEARER_TOKEN"] = None
    => \A r \in Reqs :
          /\ token[r] = None
          /\ outbound[r] = <<>>
          /\ pc[r] \notin {"authorized", "validated", "awaiting", "replied"}
          /\ (Done(r) /\ creds[r] # None)
             => response[r] = ErrorResponse(401, InvalidTokenDetail)

C10_Witness ==
    \E r \in Reqs :
        /\ env["BEARER_TOKEN"] = None
        /\ Done(r)
        /\ creds[r] = Some("tok")
        /\ response[r].status = 401

====
